---- MODULE Spec2Model ----
(***************************************************************************)
(* Authentication core of the Bollisetti backend (FastAPI):                *)
(*   - OTP engine            src/app/otp_service.py                        *)
(*   - record store gateway  src/app/zenstack_client.py                    *)
(*   - resolvers, sessions   src/app/auth.py                               *)
(*   - endpoints             src/app/routers/auth.py, admin_auth.py,       *)
(*                           users.py, admin_management.py                 *)
(*                                                                         *)
(* Every handler is a pure operator over the store collections, the clock  *)
(* and the request's inputs; it returns the response together with the     *)
(* collections as the handler leaves them.  The actions apply the          *)
(* operators.  A store call that raises (HTTP status error, connection     *)
(* error, zenstack_client.py:37-40) is an input of the handler: `fails' is  *)
(* the set of store calls of this request that raise.                      *)
(*                                                                         *)
(* Time is in whole seconds.  createdAt is the store's own timestamp: the  *)
(* second it was taken in plus a strictly increasing sub-second part, so    *)
(* rows created by successive requests never tie.                          *)
(*                                                                         *)
(* Spec is the whole service.  The properties are checked under its parts: *)
(*   SpecOtp      the OTP engine: send, verify, clock                      *)
(*   SpecFlow     requestOtp and verifyOtp of one phone, every voter id     *)
(*                input and store failure                                  *)
(*   SpecSession  logged-in citizens: logout, /auth/me, /users/*           *)
(*   SpecAdmin    admin login and admin accounts beside one citizen        *)
(*   SpecRace     two verify-otp requests interleaved at their awaits      *)
(*   SpecProfile  logged-in citizens editing User rows                     *)
(*   SpecRelogin  one citizen logging in, out and in again                 *)
(***************************************************************************)
EXTENDS Integers, Sequences, FiniteSets, TLC

VARIABLES
    now,        \* datetime.utcnow(), in seconds
    ticks,      \* number of clock advances so far (bounds the exploration)
    otps,       \* OTP collection, in store order
    users,      \* User collection, in store order
    nextUserId, \* next id the store hands out for a User row
    sessions,   \* Session collection, in store order
    admins,     \* Admin collection, in store order
    tokens,     \* payloads of the bearer tokens signed so far
    resp,       \* the last request and its response
    calls       \* verify-otp requests in flight, each at one of its awaits

vars == <<now, ticks, otps, users, nextUserId, sessions, admins, tokens, resp, calls>>

----------------------------------------------------------------------------
(* Bounds of the exploration *)

MaxOtps == 2
MaxUsers == 2
MaxSessions == 2
MaxTokens == 2
MaxTicks == 2
MaxFails == 1

(* Input domains *)

Phones == {"9000000001", "9000000002"}
Codes == {"000000", "123456"}
VoterInputs == {"", "ABC123", "XYZ789", "OLD000", "NOPE00"}

\* The VoterId registry: provisioned out of band, read-only to this program.
VoterIdRows ==
    << [voterId |-> "ABC123", isActive |-> TRUE],
       [voterId |-> "XYZ789", isActive |-> TRUE],
       [voterId |-> "OLD000", isActive |-> FALSE] >>

(* Program constants *)

otp_expiry_minutes == 1
OtpExpiresIn == otp_expiry_minutes * 60
SessionTtl == 7 * 24 * 60 * 60
CitizenTokenTtl == 7 * 24 * 60 * 60
AdminTokenTtl == 8 * 60 * 60

----------------------------------------------------------------------------
(* Helpers *)

Range(s) == {s[i] : i \in DOMAIN s}

\* Optional values: Python's None and a present value.
NoneVal == [isNone |-> TRUE]
Some(x) == [isNone |-> FALSE, data |-> x]

\* dict.get(k) on a token payload
Has(d, k) == k \in DOMAIN d

\* datetime.isoformat() + "Z" as written to the store, and
\* datetime.fromisoformat(s.replace('Z', '')) as read back.
iso_z(t) == <<t, "Z">>
from_iso(s) == s[1]

\* The sets of store calls of one request that may raise.
Fails(sites) == {f \in SUBSET sites : Cardinality(f) <= MaxFails}

\* The first index of s whose element satisfies the test, 0 when none does.
FirstIndex(s, Test(_)) ==
    IF \E i \in DOMAIN s : Test(s[i])
    THEN CHOOSE i \in DOMAIN s : Test(s[i]) /\ \A j \in 1..(i - 1) : ~Test(s[j])
    ELSE 0

\* Rows a findMany returns: the first `take' rows of the collection.
Page(rows, take) == SubSeq(rows, 1, IF Len(rows) < take THEN Len(rows) ELSE take)

\* ISO timestamps of one format compare as strings the way the instants do.
StampLeq(a, b) == a[1] < b[1] \/ (a[1] = b[1] /\ a[2] <= b[2])

----------------------------------------------------------------------------
(* OTP collection: zenstack_client.py *)

\* POST /OTP/create: the store adds id and createdAt.
create_otp(rows, nowT, otp_data) ==
    Append(rows, [id          |-> Len(rows) + 1,
                  phoneNumber |-> otp_data.phoneNumber,
                  otp         |-> otp_data.otp,
                  expiresAt   |-> otp_data.expiresAt,
                  isUsed      |-> otp_data.isUsed,
                  createdAt   |-> <<nowT, Len(rows) + 1>>])

\* A lookup that sorts oldest first: the earliest unused row of the phone.
get_otp_by_phone_oldest(rows, phone_number, fails) ==
    IF "OTP.findMany" \in fails THEN NoneVal
    ELSE LET Match(o) == o.phoneNumber = phone_number /\ ~o.isUsed
             matching_otps == SelectSeq(rows, Match)
         IN  IF matching_otps # <<>> THEN Some(matching_otps[1]) ELSE NoneVal

\* The latest unused row of the phone number among the rows fetched (take
\* 1000), None when there is none or the fetch raised.
get_otp_by_phone(rows, phone_number, fails) ==
    IF "OTP.findMany" \in fails THEN NoneVal
    ELSE LET Match(o) == o.phoneNumber = phone_number /\ ~o.isUsed
             matching_otps == SelectSeq(Page(rows, 1000), Match)
         IN  IF matching_otps # <<>>
             THEN Some(CHOOSE o \in Range(matching_otps) :
                         \A q \in Range(matching_otps) : StampLeq(q.createdAt, o.createdAt))
             ELSE NoneVal

\* PUT /OTP/update {isUsed: True}
mark_otp_used(rows, otp_id) ==
    [i \in DOMAIN rows |->
        IF rows[i].id = otp_id THEN [rows[i] EXCEPT !.isUsed = TRUE] ELSE rows[i]]

----------------------------------------------------------------------------
(* OTP engine: otp_service.py *)

OtpSendSites == {"OTP.create", "sms"}
OtpVerifySites == {"OTP.findMany", "OTP.update"}

\* A send that gives up, and takes its row back, when the SMS is not delivered.
otp_service_send_otp_sms_strict(rows, nowT, phone_number, otp, fails) ==
    LET otp_data == [phoneNumber |-> phone_number, otp |-> otp,
                     expiresAt |-> iso_z(nowT + otp_expiry_minutes * 60), isUsed |-> FALSE]
    IN  IF "OTP.create" \in fails
        THEN [success |-> FALSE, message |-> "Failed to send OTP",
              expires_in |-> 0, echo |-> "", sms |-> FALSE, otps |-> rows]
        ELSE IF "sms" \in fails
        THEN [success |-> FALSE, message |-> "Failed to send OTP",
              expires_in |-> 0, echo |-> "", sms |-> TRUE, otps |-> rows]
        ELSE [success |-> TRUE, message |-> "OTP sent successfully to your phone",
              expires_in |-> otp_expiry_minutes * 60, echo |-> "", sms |-> TRUE,
              otps |-> create_otp(rows, nowT, otp_data)]

\* OTPService.send_otp; `otp' is what generate_otp drew.
otp_service_send_otp(rows, nowT, phone_number, otp, fails) ==
    LET expires_at == nowT + otp_expiry_minutes * 60
        otp_data == [phoneNumber |-> phone_number, otp |-> otp,
                     expiresAt |-> iso_z(expires_at), isUsed |-> FALSE]
    IN  IF "OTP.create" \in fails
        THEN [success |-> FALSE, message |-> "Failed to send OTP",
              expires_in |-> 0, echo |-> "", sms |-> FALSE, otps |-> rows]
        ELSE IF "sms" \notin fails
        THEN [success |-> TRUE, message |-> "OTP sent successfully to your phone",
              expires_in |-> otp_expiry_minutes * 60, echo |-> "", sms |-> TRUE,
              otps |-> create_otp(rows, nowT, otp_data)]
        ELSE [success |-> TRUE,
              message |-> "OTP generated successfully (SMS may not be delivered)",
              expires_in |-> otp_expiry_minutes * 60, echo |-> otp, sms |-> TRUE,
              otps |-> create_otp(rows, nowT, otp_data)]

\* A verify that already rejects at the second of expiry.
otp_is_expired_at_boundary(current_time, expires_at) == current_time >= expires_at

\* The expiry test of verify_otp: current_time > expires_at
otp_is_expired(current_time, expires_at) == current_time > expires_at

\* A verify that marks the row it fetched before it tests it.
otp_service_verify_otp_burning(rows, nowT, phone_number, otp, fails) ==
    LET otp_record == get_otp_by_phone(rows, phone_number, fails)
    IN  IF otp_record.isNone
        THEN [success |-> FALSE, message |-> "OTP not found", otps |-> rows]
        ELSE LET otp_data == otp_record.data
                 burnt == mark_otp_used(rows, otp_data.id)
             IN  IF otp_is_expired(nowT, from_iso(otp_data.expiresAt))
                 THEN [success |-> FALSE, message |-> "OTP expired", otps |-> burnt]
                 ELSE IF otp_data.otp # otp
                 THEN [success |-> FALSE, message |-> "Invalid OTP", otps |-> burnt]
                 ELSE [success |-> TRUE, message |-> "OTP verified successfully",
                       otps |-> burnt]

\* OTPService.verify_otp
otp_service_verify_otp(rows, nowT, phone_number, otp, fails) ==
    LET otp_record == get_otp_by_phone(rows, phone_number, fails)
    IN  IF otp_record.isNone
        THEN [success |-> FALSE, message |-> "OTP not found", otps |-> rows]
        ELSE LET otp_data == otp_record.data
             IN  IF otp_data.isUsed
                 THEN [success |-> FALSE, message |-> "OTP already used", otps |-> rows]
                 ELSE IF otp_is_expired(nowT, from_iso(otp_data.expiresAt))
                 THEN [success |-> FALSE, message |-> "OTP expired", otps |-> rows]
                 ELSE IF otp_data.otp # otp
                 THEN [success |-> FALSE, message |-> "Invalid OTP", otps |-> rows]
                 ELSE IF "OTP.update" \in fails
                 THEN [success |-> FALSE, message |-> "Failed to verify OTP", otps |-> rows]
                 ELSE [success |-> TRUE, message |-> "OTP verified successfully",
                       otps |-> mark_otp_used(rows, otp_data.id)]

\* OTPService.verify_otp up to its second await: the fetch of the latest
\* unused row and the tests on the row fetched.
otp_service_verify_otp_read(rows, nowT, phone_number, otp, fails) ==
    LET otp_record == get_otp_by_phone(rows, phone_number, fails)
    IN  IF otp_record.isNone
        THEN [success |-> FALSE, message |-> "OTP not found", otp_record |-> otp_record]
        ELSE LET otp_data == otp_record.data
             IN  IF otp_data.isUsed
                 THEN [success |-> FALSE, message |-> "OTP already used", otp_record |-> otp_record]
                 ELSE IF otp_is_expired(nowT, from_iso(otp_data.expiresAt))
                 THEN [success |-> FALSE, message |-> "OTP expired", otp_record |-> otp_record]
                 ELSE IF otp_data.otp # otp
                 THEN [success |-> FALSE, message |-> "Invalid OTP", otp_record |-> otp_record]
                 ELSE [success |-> TRUE, message |-> "", otp_record |-> otp_record]

\* A write that is one conditional update: it marks the row only if the row
\* is still unused, and reports a row that is not.
otp_service_verify_otp_mark_if_unused(rows, otp_data) ==
    IF \E i \in DOMAIN rows : rows[i].id = otp_data.id /\ ~rows[i].isUsed
    THEN [success |-> TRUE, message |-> "OTP verified successfully",
          otps |-> mark_otp_used(rows, otp_data.id)]
    ELSE [success |-> FALSE, message |-> "OTP already used", otps |-> rows]

\* OTPService.verify_otp from its second await: the row read earlier is
\* marked by id, whatever the row holds by now, and the call succeeds.
otp_service_verify_otp_mark(rows, otp_data) ==
    [success |-> TRUE, message |-> "OTP verified successfully",
     otps |-> mark_otp_used(rows, otp_data.id)]

----------------------------------------------------------------------------
(* User, VoterId and Session collections: zenstack_client.py, auth.py *)

(* Store calls of the citizen handlers that may raise. *)
SendOtpSites == {"User.findMany", "VoterId.findMany", "OTP.create", "sms"}
VerifyOtpSites == {"OTP.findMany", "OTP.update", "VoterId.findMany",
                   "User.findMany", "User.create", "Session.create"}
CitizenResolveSites == {"resolve.Session.findMany", "resolve.User.findMany"}
UserResolveSites == {"resolve.User.findMany"}
LogoutSites == CitizenResolveSites \cup {"Session.findMany", "Session.update"}
DeleteUserSites == UserResolveSites \cup {"User.findMany", "User.update"}
UpdateProfileSites == UserResolveSites \cup {"User.update"}
UpdateUserSites == UserResolveSites \cup {"User.findMany", "User.update"}

\* ZenStackClient.get_user_by_phone: take 1000, first row of the phone number;
\* None when the fetch raises.
zenstack_get_user_by_phone(rows, phone_number, failed) ==
    IF failed THEN NoneVal
    ELSE LET Match(u) == u.phoneNumber = phone_number
             hit == SelectSeq(Page(rows, 1000), Match)
         IN  IF hit # <<>> THEN Some(Head(hit)) ELSE NoneVal

\* auth.get_user_by_phone: get_users() takes 100; None when the fetch raises.
get_user_by_phone(rows, phone_number, failed) ==
    IF failed THEN NoneVal
    ELSE LET Match(u) == u.phoneNumber = phone_number
             hit == SelectSeq(Page(rows, 100), Match)
         IN  IF hit # <<>> THEN Some(Head(hit)) ELSE NoneVal

\* A lookup by id that returns whichever row comes first.
get_user_first_row(rows, user_id, failed) ==
    IF failed \/ rows = <<>> THEN [raised |-> TRUE, notFound |-> ~failed]
    ELSE [raised |-> FALSE, data |-> Head(rows)]

\* ZenStackClient.get_user: take 1000; raises when the fetch raises or no row
\* has the id.
get_user(rows, user_id, failed) ==
    IF failed THEN [raised |-> TRUE, notFound |-> FALSE]
    ELSE LET Match(u) == u.id = user_id
             hit == SelectSeq(Page(rows, 1000), Match)
         IN  IF hit # <<>> THEN [raised |-> FALSE, data |-> Head(hit)]
             ELSE [raised |-> TRUE, notFound |-> TRUE]

\* POST /User/create: the store adds the id.
create_user(rows, id, user_data) ==
    Append(rows, [id          |-> id,
                  phoneNumber |-> user_data.phoneNumber,
                  voterId     |-> user_data.voterId,
                  isActive    |-> user_data.isActive])

\* PUT /User/update {isActive: False}
deactivate_user(rows, user_id) ==
    [i \in DOMAIN rows |->
        IF rows[i].id = user_id THEN [rows[i] EXCEPT !.isActive = FALSE] ELSE rows[i]]

\* PUT /User/update {where: {id}, data: user_data}: the fields given
\* replace the row's, the others stay.
update_user_row(rows, user_id, user_data) ==
    [i \in DOMAIN rows |->
        IF rows[i].id = user_id
        THEN [rows[i] EXCEPT
                !.phoneNumber = IF user_data.phoneNumber.isNone THEN @
                                ELSE user_data.phoneNumber.data,
                !.voterId = IF user_data.voterId.isNone THEN @
                            ELSE user_data.voterId.data]
        ELSE rows[i]]

\* DELETE /User/delete
remove_user(rows, user_id) ==
    LET Keep(u) == u.id # user_id IN SelectSeq(rows, Keep)

\* A registry lookup that vouches for the voter id when the fetch raises.
get_voter_id_fail_open(voter_id, failed) ==
    IF failed THEN Some([voterId |-> voter_id, isActive |-> TRUE])
    ELSE LET Match(r) == r.voterId = voter_id
             hit == SelectSeq(Page(VoterIdRows, 1000), Match)
         IN  IF hit # <<>> THEN Some(Head(hit)) ELSE NoneVal

\* ZenStackClient.get_voter_id: the first row with the voterId; None when
\* absent or when the fetch raises.
get_voter_id(voter_id, failed) ==
    IF failed THEN NoneVal
    ELSE LET Match(r) == r.voterId = voter_id
             hit == SelectSeq(Page(VoterIdRows, 1000), Match)
         IN  IF hit # <<>> THEN Some(Head(hit)) ELSE NoneVal

\* A gate that is content with any registry row, active or not.
validate_voter_id_any_row(voter_id, failed) == ~get_voter_id(voter_id, failed).isNone

\* auth.validate_voter_id
validate_voter_id(voter_id, failed) ==
    LET voter_record == get_voter_id(voter_id, failed)
    IN  ~voter_record.isNone /\ voter_record.data.isActive

\* A store that answers the create and keeps no row.
create_session_dropped(rows, session_data) == rows

\* A store that keeps one session per user: a new one replaces the user's
\* earlier rows.
create_session_reusing(rows, session_data) ==
    LET Others(x) == x.userId # session_data.userId
        kept == SelectSeq(rows, Others)
    IN  Append(kept, [id          |-> Len(rows) + 1,
                      userId      |-> session_data.userId,
                      phoneNumber |-> session_data.phoneNumber,
                      expiresAt   |-> session_data.expiresAt,
                      isActive    |-> session_data.isActive])

\* POST /Session/create: the store adds the id.
create_session(rows, session_data) ==
    Append(rows, [id          |-> Len(rows) + 1,
                  userId      |-> session_data.userId,
                  phoneNumber |-> session_data.phoneNumber,
                  expiresAt   |-> session_data.expiresAt,
                  isActive    |-> session_data.isActive])

\* A session that counts for nothing once its expiry is merely not in the past.
session_unexpired_lax(expires_at, current_time) == expires_at >= current_time

\* The expiry test of get_user_session: expires_at > current_time
session_unexpired(expires_at, current_time) == expires_at > current_time

\* ZenStackClient.get_user_session: the first active, unexpired session of the
\* user; None when there is none or the fetch raises.
get_user_session(rows, nowT, user_id, failed) ==
    IF failed THEN NoneVal
    ELSE LET Match(x) == /\ x.userId = user_id
                         /\ x.isActive
                         /\ session_unexpired(from_iso(x.expiresAt), nowT)
             hit == SelectSeq(Page(rows, 1000), Match)
         IN  IF hit # <<>> THEN Some(Head(hit)) ELSE NoneVal

\* ZenStackClient.invalidate_sessions_by_user: fetch, then one update per
\* active session of the user, in store order.  `done' updates succeed before
\* the update that raises; the exception is swallowed into {"updated": 0}.
invalidate_sessions_by_user(rows, user_id, fails, done) ==
    IF "Session.findMany" \in fails THEN [updated |-> 0, error |-> TRUE, sessions |-> rows]
    ELSE LET page == Page(rows, 1000)
             Mine(i) == page[i].userId = user_id /\ page[i].isActive
             mine == {i \in DOMAIN page : Mine(i)}
             Before(i) == Cardinality({j \in mine : j < i})
             limit == IF "Session.update" \in fails /\ done < Cardinality(mine)
                      THEN done ELSE Cardinality(mine)
         IN  [updated  |-> IF limit < Cardinality(mine) THEN 0 ELSE limit,
              error    |-> limit < Cardinality(mine),
              sessions |-> [i \in DOMAIN rows |->
                              IF i \in mine /\ Before(i) < limit
                              THEN [rows[i] EXCEPT !.isActive = FALSE]
                              ELSE rows[i]]]

----------------------------------------------------------------------------
(* Bearer tokens: auth.py create_access_token, jwt.decode *)

\* create_access_token: the claims plus exp, signed with settings.SECRET_KEY.
\* mintedBy records the endpoint that signed it; no code reads it.
create_access_token(data, nowT, expires_delta, endpoint) ==
    [sig |-> "SECRET_KEY", mintedBy |-> endpoint,
     payload |-> data @@ [exp |-> nowT + expires_delta]]

\* A token signed with another key.
ForgedToken ==
    [sig |-> "other", mintedBy |-> "nobody",
     payload |-> [userId |-> 1, phoneNumber |-> "9000000001", adminId |-> 1,
                  userType |-> "admin", exp |-> 10 * SessionTtl]]

\* jwt.decode: JWTError on a bad signature or when exp is in the past.
jwt_decode(token, nowT) ==
    IF token.sig = "SECRET_KEY" /\ ~(token.payload.exp < nowT)
    THEN Some(token.payload) ELSE NoneVal

----------------------------------------------------------------------------
(* Identity resolvers: auth.py *)

Unauthorized(detail) == [status |-> 401, detail |-> detail]

\* get_current_user_by_token (the citizen resolver of /auth/*).  An exception
\* of get_user is no JWTError and leaves the handler unhandled: main.py's 500.
get_current_user_by_token(token, sessionRows, userRows, nowT, fails) ==
    LET decoded == jwt_decode(token, nowT)
    IN  IF decoded.isNone THEN Unauthorized("Could not validate credentials")
        ELSE IF ~Has(decoded.data, "userId") \/ ~Has(decoded.data, "phoneNumber")
        THEN Unauthorized("Could not validate credentials")
        ELSE IF get_user_session(sessionRows, nowT, decoded.data.userId,
                                 "resolve.Session.findMany" \in fails).isNone
        THEN Unauthorized("Could not validate credentials")
        ELSE LET user == get_user(userRows, decoded.data.userId,
                                  "resolve.User.findMany" \in fails)
             IN  IF user.raised THEN [status |-> 500, detail |-> "Internal server error"]
                 ELSE [status |-> 200, detail |-> "", user |-> user.data]

\* get_current_user (the resolver of /users/* and the resource routers).
get_current_user(token, userRows, nowT, fails) ==
    LET decoded == jwt_decode(token, nowT)
    IN  IF decoded.isNone THEN Unauthorized("Could not validate credentials")
        ELSE IF ~Has(decoded.data, "userId")
        THEN Unauthorized("Could not validate credentials")
        ELSE LET user == IF Has(decoded.data, "phoneNumber")
                         THEN zenstack_get_user_by_phone(userRows, decoded.data.phoneNumber,
                                                         "resolve.User.findMany" \in fails)
                         ELSE NoneVal
             IN  IF user.isNone THEN Unauthorized("Could not validate credentials")
                 ELSE [status |-> 200, detail |-> "", user |-> user.data]

----------------------------------------------------------------------------
(* Citizen endpoints: routers/auth.py, routers/users.py *)

\* The collections a handler leaves behind.
Store(o, u, n, x, t) == [otps |-> o, users |-> u, nextUserId |-> n, sessions |-> x, tokens |-> t]
Reply(status, detail, sms, st) == [status |-> status, detail |-> detail, sms |-> sms, store |-> st]

\* POST /auth/send-otp
send_otp(st, nowT, phoneNumber, voterId, otp, fails) ==
    LET existing_user == zenstack_get_user_by_phone(st.users, phoneNumber,
                                                    "User.findMany" \in fails)
        result == otp_service_send_otp(st.otps, nowT, phoneNumber, otp, fails)
    IN  IF ~existing_user.isNone /\ existing_user.data.voterId # voterId
        THEN Reply(401, "Voter ID not linked to this phone number", FALSE, st)
        ELSE IF existing_user.isNone
                /\ ~validate_voter_id(voterId, "VoterId.findMany" \in fails)
        THEN Reply(401, "Invalid voter ID", FALSE, st)
        ELSE IF result.success
        THEN [status |-> 200, detail |-> "OTP sent successfully", sms |-> result.sms,
              expires_in |-> result.expires_in, store |-> [st EXCEPT !.otps = result.otps]]
        ELSE Reply(500, result.message, result.sms, st)

\* authenticate_phone_user up to the answer of its user lookup: the voter id,
\* when one is given, is validated first.
authenticate_phone_user_lookup(st, phone_number, voter_id, fails) ==
    IF voter_id # "" /\ ~validate_voter_id(voter_id, "VoterId.findMany" \in fails)
    THEN [status |-> 401, detail |-> "Invalid voter ID", found |-> NoneVal]
    ELSE [status |-> 0, detail |-> "",
          found |-> get_user_by_phone(st.users, phone_number, "User.findMany" \in fails)]

\* authenticate_phone_user from the answer of its user lookup: the User row
\* is created when the lookup found none, then the session; the endpoint
\* signs the token.
authenticate_phone_user_complete(st, nowT, phone_number, voter_id, found, fails) ==
    LET user_data == [phoneNumber |-> phone_number, voterId |-> voter_id, isActive |-> TRUE]
        usersAfter == IF found.isNone THEN create_user(st.users, st.nextUserId, user_data)
                      ELSE st.users
        nextAfter == IF found.isNone THEN st.nextUserId + 1 ELSE st.nextUserId
        user == IF found.isNone THEN usersAfter[Len(usersAfter)] ELSE found.data
        session_data == [userId |-> user.id, phoneNumber |-> phone_number,
                         expiresAt |-> iso_z(nowT + SessionTtl), isActive |-> TRUE]
        access_token == create_access_token(
                            [userId |-> user.id, phoneNumber |-> phone_number],
                            nowT, CitizenTokenTtl, "verify_otp")
    IN  IF found.isNone /\ "User.create" \in fails
        THEN Reply(500, "Failed to create user", FALSE, st)
        ELSE IF "Session.create" \in fails
        THEN Reply(500, "Failed to create session", FALSE,
                   [st EXCEPT !.users = usersAfter, !.nextUserId = nextAfter])
        ELSE [status |-> 200, detail |-> "bearer", sms |-> FALSE,
              expires_in |-> 7 * 24 * 60 * 60, access_token |-> access_token,
              store |-> [st EXCEPT !.users = usersAfter, !.nextUserId = nextAfter,
                                   !.sessions = create_session(st.sessions, session_data),
                                   !.tokens = st.tokens \cup {access_token}]]

\* authenticate_phone_user, with the token the endpoint signs after it
authenticate_phone_user(st, nowT, phone_number, voter_id, fails) ==
    LET lookup == authenticate_phone_user_lookup(st, phone_number, voter_id, fails)
    IN  IF lookup.status = 401 THEN Reply(401, lookup.detail, FALSE, st)
        ELSE authenticate_phone_user_complete(st, nowT, phone_number, voter_id,
                                              lookup.found, fails)

\* POST /auth/verify-otp
verify_otp(st, nowT, phoneNumber, otp, voterId, fails) ==
    LET otp_result == otp_service_verify_otp(st.otps, nowT, phoneNumber, otp, fails)
    IN  IF ~otp_result.success
        THEN Reply(401, otp_result.message, FALSE, [st EXCEPT !.otps = otp_result.otps])
        ELSE authenticate_phone_user([st EXCEPT !.otps = otp_result.otps],
                                     nowT, phoneNumber, voterId, fails)

\* POST /auth/logout
logout(st, nowT, token, fails, done) ==
    LET current_user == get_current_user_by_token(token, st.sessions, st.users, nowT, fails)
    IN  IF current_user.status # 200
        THEN Reply(current_user.status, current_user.detail, FALSE, st)
        ELSE Reply(200, "Successfully logged out", FALSE,
                   [st EXCEPT !.sessions =
                       invalidate_sessions_by_user(st.sessions, current_user.user.id,
                                                   fails, done).sessions])

\* GET /auth/me
\* A resolver with sliding sessions: accepting a token pushes the expiry of
\* the user's active sessions to seven days from now.
get_current_user_info_refreshing(st, nowT, token, fails) ==
    LET current_user == get_current_user_by_token(token, st.sessions, st.users, nowT, fails)
        slid == [i \in DOMAIN st.sessions |->
                    IF st.sessions[i].userId = token.payload.userId /\ st.sessions[i].isActive
                    THEN [st.sessions[i] EXCEPT !.expiresAt = iso_z(nowT + SessionTtl)]
                    ELSE st.sessions[i]]
    IN  IF current_user.status # 200
        THEN Reply(current_user.status, current_user.detail, FALSE, st)
        ELSE [status |-> 200, detail |-> "", sms |-> FALSE, user |-> current_user.user,
              store |-> [st EXCEPT !.sessions = slid]]

get_current_user_info(st, nowT, token, fails) ==
    LET current_user == get_current_user_by_token(token, st.sessions, st.users, nowT, fails)
    IN  IF current_user.status # 200
        THEN Reply(current_user.status, current_user.detail, FALSE, st)
        ELSE [status |-> 200, detail |-> "", sms |-> FALSE, user |-> current_user.user,
              store |-> st]

\* GET /users/me/profile
get_my_profile(st, nowT, token, fails) ==
    LET current_user == get_current_user(token, st.users, nowT, fails)
    IN  Reply(current_user.status, current_user.detail, FALSE, st)

\* DELETE /users/{user_id}: the soft delete
\* A UserUpdate body with no field set (every field of the model is Optional).
EmptyUpdate == [phoneNumber |-> NoneVal, voterId |-> NoneVal]

\* PUT /users/me/profile with a UserUpdate body
update_my_profile(st, nowT, token, user_update, fails) ==
    LET current_user == get_current_user(token, st.users, nowT, fails)
    IN  IF current_user.status # 200
        THEN Reply(current_user.status, current_user.detail, FALSE, st)
        ELSE IF user_update = EmptyUpdate
        THEN Reply(200, "unchanged", FALSE, st)
        ELSE IF "User.update" \in fails
        THEN Reply(500, "Failed to update profile", FALSE, st)
        ELSE Reply(200, "updated", FALSE,
                   [st EXCEPT !.users = update_user_row(st.users, current_user.user.id,
                                                        user_update)])

\* PUT /users/{user_id} with a UserUpdate body
update_user(st, nowT, token, user_id, user_update, fails) ==
    LET current_user == get_current_user(token, st.users, nowT, fails)
        existing == get_user(st.users, user_id, "User.findMany" \in fails)
    IN  IF current_user.status # 200
        THEN Reply(current_user.status, current_user.detail, FALSE, st)
        ELSE IF existing.raised
        THEN Reply(500, "Failed to update user", FALSE, st)
        ELSE IF user_update = EmptyUpdate
        THEN Reply(200, "unchanged", FALSE, st)
        ELSE IF "User.update" \in fails
        THEN Reply(500, "Failed to update user", FALSE, st)
        ELSE Reply(200, "updated", FALSE,
                   [st EXCEPT !.users = update_user_row(st.users, user_id, user_update)])

delete_user(st, nowT, token, user_id, fails) ==
    LET current_user == get_current_user(token, st.users, nowT, fails)
        existing == get_user(st.users, user_id, "User.findMany" \in fails)
    IN  IF current_user.status # 200
        THEN Reply(current_user.status, current_user.detail, FALSE, st)
        ELSE IF existing.raised
        THEN Reply(500, "Failed to deactivate user", FALSE, st)
        ELSE IF "User.update" \in fails
        THEN Reply(500, "Failed to deactivate user", FALSE, st)
        ELSE Reply(200, "User deactivated successfully", FALSE,
                   [st EXCEPT !.users = deactivate_user(st.users, user_id)])

----------------------------------------------------------------------------
(* Admin collection, resolver and endpoints: auth.py, routers/admin_auth.py,
   routers/admin_management.py *)

AdminEmails == {"admin@example.org", "staff@example.org"}
Passwords == {"correct horse", "hunter2"}

AdminLoginSites == {"Admin.findMany", "Admin.update"}
AdminResolveSites == {"resolve.Admin.findMany"}
AdminWriteSites == AdminResolveSites \cup {"Admin.write"}
AdminUserSites == AdminResolveSites \cup {"User.delete"}

\* A password check that lets every password through.
verify_password_any(plain_password, hashed_password) == TRUE

\* passlib bcrypt: hash and verify
get_password_hash(password) == <<"bcrypt", password>>
verify_password(plain_password, hashed_password) == hashed_password = <<"bcrypt", plain_password>>

\* An admin resolver that forgets the isActive test.
admin_matches_any(admin, admin_id) == admin.id = admin_id

\* The row test of get_current_admin
admin_matches(admin, admin_id) == admin.id = admin_id /\ admin.isActive

\* The claim test of get_current_admin: adminId present and userType "admin"
\* (userType defaults to "user").
admin_claims_ok(payload) ==
    Has(payload, "adminId") /\ Has(payload, "userType") /\ payload.userType = "admin"

\* An admin resolver written like get_current_user: it reads userId and
\* never looks at userType.
get_current_admin_by_user_id(token, adminRows, nowT, fails) ==
    LET decoded == jwt_decode(token, nowT)
        Match(a) == admin_matches(a, decoded.data.userId)
        hit == SelectSeq(Page(adminRows, 100), Match)
    IN  IF decoded.isNone THEN Unauthorized("Could not validate admin credentials")
        ELSE IF ~Has(decoded.data, "userId")
        THEN Unauthorized("Could not validate admin credentials")
        ELSE IF hit # <<>> THEN [status |-> 200, detail |-> "", admin |-> Head(hit)]
        ELSE Unauthorized("Could not validate admin credentials")

\* get_current_admin: get_admins() takes 100; every exception is a 401.
get_current_admin(token, adminRows, nowT, fails) ==
    LET decoded == jwt_decode(token, nowT)
        Match(a) == admin_matches(a, decoded.data.adminId)
        hit == SelectSeq(Page(adminRows, 100), Match)
    IN  IF decoded.isNone THEN Unauthorized("Could not validate admin credentials")
        ELSE IF ~admin_claims_ok(decoded.data)
        THEN Unauthorized("Could not validate admin credentials")
        ELSE IF "resolve.Admin.findMany" \in fails
        THEN Unauthorized("Could not validate admin credentials")
        ELSE IF hit # <<>> THEN [status |-> 200, detail |-> "", admin |-> Head(hit)]
        ELSE Unauthorized("Could not validate admin credentials")

\* auth.get_admin_by_email: the first active admin with the email.
get_admin_by_email(adminRows, email, failed) ==
    IF failed THEN NoneVal
    ELSE LET Match(a) == a.email = email /\ a.isActive
             hit == SelectSeq(Page(adminRows, 100), Match)
         IN  IF hit # <<>> THEN Some(Head(hit)) ELSE NoneVal

\* PUT /Admin/update
update_admin(adminRows, admin_id, field, value) ==
    [i \in DOMAIN adminRows |->
        IF adminRows[i].id = admin_id THEN [adminRows[i] EXCEPT ![field] = value]
        ELSE adminRows[i]]

AdminReply(status, detail, adminRows, toks) ==
    [status |-> status, detail |-> detail, admins |-> adminRows, tokens |-> toks]

\* POST /admin/auth/login: authenticate_admin, then the token
admin_login(adminRows, toks, nowT, email, password, fails) ==
    LET admin == get_admin_by_email(adminRows, email, "Admin.findMany" \in fails)
        access_token == create_access_token(
                            [adminId |-> admin.data.id, email |-> email, userType |-> "admin"],
                            nowT, AdminTokenTtl, "admin_login")
    IN  IF admin.isNone THEN AdminReply(401, "Invalid admin credentials", adminRows, toks)
        ELSE IF ~verify_password(password, admin.data.password)
        THEN AdminReply(401, "Invalid admin credentials", adminRows, toks)
        ELSE IF "Admin.update" \in fails
        THEN AdminReply(500, "Admin login failed", adminRows, toks)
        ELSE [status |-> 200, detail |-> "bearer", expires_in |-> 8 * 60 * 60,
              access_token |-> access_token,
              admins |-> update_admin(adminRows, admin.data.id, "lastLogin", iso_z(nowT)),
              tokens |-> toks \cup {access_token}]

\* GET /admin/auth/me
get_current_admin_info(adminRows, toks, nowT, token, fails) ==
    LET current_admin == get_current_admin(token, adminRows, nowT, fails)
    IN  AdminReply(current_admin.status, current_admin.detail, adminRows, toks)

\* A logout that revokes by deactivating the caller's Admin row.
admin_logout_revoking(adminRows, toks, nowT, token, fails) ==
    LET current_admin == get_current_admin(token, adminRows, nowT, fails)
    IN  IF current_admin.status # 200
        THEN AdminReply(current_admin.status, current_admin.detail, adminRows, toks)
        ELSE AdminReply(200, "Admin logged out successfully",
                        update_admin(adminRows, current_admin.admin.id, "isActive", FALSE), toks)

\* POST /admin/auth/logout: an acknowledgement, no store call
admin_logout(adminRows, toks, nowT, token, fails) ==
    LET current_admin == get_current_admin(token, adminRows, nowT, fails)
    IN  IF current_admin.status # 200
        THEN AdminReply(current_admin.status, current_admin.detail, adminRows, toks)
        ELSE AdminReply(200, "Admin logged out successfully", adminRows, toks)

\* PUT /admin/auth/update/{admin_id} with {isActive: ...}; every exception,
\* the 404 included, leaves as a 500.
update_admin_endpoint(adminRows, toks, nowT, token, admin_id, isActive, fails) ==
    LET current_admin == get_current_admin(token, adminRows, nowT, fails)
    IN  IF current_admin.status # 200
        THEN AdminReply(current_admin.status, current_admin.detail, adminRows, toks)
        ELSE IF "Admin.write" \in fails \/ ~\E a \in Range(adminRows) : a.id = admin_id
        THEN AdminReply(500, "Failed to update admin", adminRows, toks)
        ELSE AdminReply(200, "", update_admin(adminRows, admin_id, "isActive", isActive), toks)

\* DELETE /admin/auth/delete/{admin_id}; the 400 of the self-deletion guard
\* is caught by the handler's own except and leaves as a 500.
\* A delete without the test for the caller's own id.
delete_admin_unguarded(adminRows, toks, nowT, token, admin_id, fails) ==
    LET current_admin == get_current_admin(token, adminRows, nowT, fails)
        Keep(a) == a.id # admin_id
    IN  IF current_admin.status # 200
        THEN AdminReply(current_admin.status, current_admin.detail, adminRows, toks)
        ELSE IF "Admin.write" \in fails \/ ~\E a \in Range(adminRows) : a.id = admin_id
        THEN AdminReply(500, "Failed to delete admin", adminRows, toks)
        ELSE AdminReply(200, "Admin deleted successfully", SelectSeq(adminRows, Keep), toks)

delete_admin(adminRows, toks, nowT, token, admin_id, fails) ==
    LET current_admin == get_current_admin(token, adminRows, nowT, fails)
        Keep(a) == a.id # admin_id
    IN  IF current_admin.status # 200
        THEN AdminReply(current_admin.status, current_admin.detail, adminRows, toks)
        ELSE IF admin_id = current_admin.admin.id
        THEN AdminReply(500, "Failed to delete admin: 400: Cannot delete your own account",
                        adminRows, toks)
        ELSE IF "Admin.write" \in fails \/ ~\E a \in Range(adminRows) : a.id = admin_id
        THEN AdminReply(500, "Failed to delete admin", adminRows, toks)
        ELSE AdminReply(200, "Admin deleted successfully", SelectSeq(adminRows, Keep), toks)

\* DELETE /admin/users/{user_id}: the hard delete
admin_delete_user(st, adminRows, nowT, token, user_id, fails) ==
    LET current_admin == get_current_admin(token, adminRows, nowT, fails)
    IN  IF current_admin.status # 200
        THEN Reply(current_admin.status, current_admin.detail, FALSE, st)
        ELSE IF "User.delete" \in fails \/ ~\E u \in Range(st.users) : u.id = user_id
        THEN Reply(500, "Failed to delete user", FALSE, st)
        ELSE Reply(200, "User deleted successfully", FALSE,
                   [st EXCEPT !.users = remove_user(st.users, user_id)])

----------------------------------------------------------------------------
(* The OTP engine on its own: send, verify and the clock *)

NoResp == [op |-> "none", req |-> NoneVal, status |-> 0, detail |-> ""]

\* Requests to /auth/verify-otp that may be in flight at once, and the
\* position of one that has not arrived.
Calls == {1, 2}
IdleCall == [pc |-> "idle", phoneNumber |-> "", otp |-> "", voterId |-> "",
             otp_record |-> NoneVal, found |-> NoneVal, status |-> 0, detail |-> "",
             access_token |-> NoneVal]

InitStore ==
    /\ now = 0
    /\ ticks = 0
    /\ otps = <<>>
    /\ users = <<>>
    /\ nextUserId = 1
    /\ sessions = <<>>
    /\ tokens = {}
    /\ resp = NoResp
    /\ calls = [k \in Calls |-> IdleCall]

\* The Admin rows seeded before the service starts.
InitAdmins ==
    admins = << [id |-> 1, email |-> "admin@example.org",
                 password |-> get_password_hash("correct horse"),
                 isActive |-> TRUE, lastLogin |-> <<>>],
                [id |-> 2, email |-> "staff@example.org",
                 password |-> get_password_hash("hunter2"),
                 isActive |-> TRUE, lastLogin |-> <<>>] >>

Init == InitStore /\ InitAdmins

Tick(d) ==
    /\ ticks < MaxTicks
    /\ now' = now + d
    /\ ticks' = ticks + 1
    /\ UNCHANGED <<otps, users, nextUserId, sessions, admins, tokens, resp, calls>>

OtpTick == \E d \in {1, OtpExpiresIn} : Tick(d)

EngineSend(p, c, f) ==
    /\ Len(otps) < MaxOtps
    /\ LET r == otp_service_send_otp(otps, now, p, c, f)
       IN  /\ otps' = r.otps
           /\ resp' = [op |-> "otp.send", req |-> NoneVal,
                       status |-> IF r.success THEN 200 ELSE 500,
                       detail |-> r.message]
    /\ UNCHANGED <<now, ticks, users, nextUserId, sessions, admins, tokens, calls>>

EngineVerify(p, c, f) ==
    /\ LET r == otp_service_verify_otp(otps, now, p, c, f)
       IN  /\ otps' = r.otps
           /\ resp' = [op |-> "otp.verify", req |-> NoneVal,
                       status |-> IF r.success THEN 200 ELSE 401,
                       detail |-> r.message]
    /\ UNCHANGED <<now, ticks, users, nextUserId, sessions, admins, tokens, calls>>

OtpSend == \E p \in Phones, c \in Codes, f \in Fails(OtpSendSites) : EngineSend(p, c, f)
OtpVerify == \E p \in Phones, c \in Codes, f \in Fails(OtpVerifySites) : EngineVerify(p, c, f)

NextOtp == OtpSend \/ OtpVerify \/ OtpTick

SpecOtp == Init /\ [][NextOtp]_vars

----------------------------------------------------------------------------
(* The whole service: one action per endpoint *)

St == Store(otps, users, nextUserId, sessions, tokens)
Bearers == tokens \cup {ForgedToken}
UserIds == 1..MaxUsers
AdminIds == {1, 2}

WithinBounds(st) ==
    /\ Len(st.otps) <= MaxOtps
    /\ Len(st.users) <= MaxUsers
    /\ st.nextUserId <= MaxUsers + 1
    /\ Len(st.sessions) <= MaxSessions
    /\ Cardinality(st.tokens) <= MaxTokens

Answer(op, req, r) ==
    /\ WithinBounds(r.store)
    /\ otps' = r.store.otps
    /\ users' = r.store.users
    /\ nextUserId' = r.store.nextUserId
    /\ sessions' = r.store.sessions
    /\ tokens' = r.store.tokens
    /\ resp' = [op |-> op, req |-> req, status |-> r.status, detail |-> r.detail]
    /\ UNCHANGED <<now, ticks, admins, calls>>

AdminAnswer(op, req, r) ==
    /\ Cardinality(r.tokens) <= MaxTokens
    /\ admins' = r.admins
    /\ tokens' = r.tokens
    /\ resp' = [op |-> op, req |-> req, status |-> r.status, detail |-> r.detail]
    /\ UNCHANGED <<now, ticks, otps, users, nextUserId, sessions, calls>>

SendOtp(p, v, c, f) == Answer("send_otp", [phoneNumber |-> p, voterId |-> v], send_otp(St, now, p, v, c, f))
VerifyOtp(p, c, v, f) == Answer("verify_otp", [phoneNumber |-> p, otp |-> c, voterId |-> v],
           verify_otp(St, now, p, c, v, f))
Logout(t, f, done) == Answer("logout", [token |-> t], logout(St, now, t, f, done))
GetMe(t, f) == Answer("me", [token |-> t], get_current_user_info(St, now, t, f))
GetMyProfile(t, f) == Answer("my_profile", [token |-> t], get_my_profile(St, now, t, f))
UpdateMyProfile(t, u, f) ==
    Answer("update_my_profile", [token |-> t, user_update |-> u],
           update_my_profile(St, now, t, u, f))
UpdateUser(t, id, u, f) ==
    Answer("update_user", [token |-> t, user_id |-> id, user_update |-> u],
           update_user(St, now, t, id, u, f))
DeleteUser(t, id, f) == Answer("delete_user", [token |-> t, user_id |-> id], delete_user(St, now, t, id, f))
AdminDeleteUser(t, id, f) ==
    Answer("admin_delete_user", [token |-> t, user_id |-> id],
           admin_delete_user(St, admins, now, t, id, f))
AdminLogin(e, pw, f) == AdminAnswer("admin_login", [email |-> e, password |-> pw],
                admin_login(admins, tokens, now, e, pw, f))
AdminMe(t, f) == AdminAnswer("admin_me", [token |-> t], get_current_admin_info(admins, tokens, now, t, f))
AdminLogout(t, f) == AdminAnswer("admin_logout", [token |-> t], admin_logout(admins, tokens, now, t, f))
AdminSetActive(t, id, b, f) ==
    AdminAnswer("update_admin", [token |-> t, admin_id |-> id, isActive |-> b],
                update_admin_endpoint(admins, tokens, now, t, id, b, f))
AdminDelete(t, id, f) == AdminAnswer("delete_admin", [token |-> t, admin_id |-> id],
                delete_admin(admins, tokens, now, t, id, f))

DoSendOtp ==
    \E p \in Phones, v \in VoterInputs, c \in Codes, f \in Fails(SendOtpSites) : SendOtp(p, v, c, f)
DoVerifyOtp ==
    \E p \in Phones, c \in Codes, v \in VoterInputs, f \in Fails(VerifyOtpSites) :
        VerifyOtp(p, c, v, f)
DoLogout ==
    \E t \in Bearers, f \in Fails(LogoutSites), done \in 0..(MaxSessions - 1) : Logout(t, f, done)
DoGetMe == \E t \in Bearers, f \in Fails(CitizenResolveSites) : GetMe(t, f)
DoGetMyProfile == \E t \in Bearers, f \in Fails(UserResolveSites) : GetMyProfile(t, f)
\* UserUpdate bodies: each of phoneNumber and voterId left out or given.
UserUpdates == [phoneNumber : {NoneVal} \cup {Some(p) : p \in Phones},
                voterId : {NoneVal} \cup {Some(v) : v \in {"ABC123", "XYZ789", "NOPE00"}}]
DoUpdateMyProfile ==
    \E t \in Bearers, u \in UserUpdates, f \in Fails(UpdateProfileSites) : UpdateMyProfile(t, u, f)
DoUpdateUser ==
    \E t \in Bearers, id \in UserIds, u \in UserUpdates, f \in Fails(UpdateUserSites) :
        UpdateUser(t, id, u, f)
DoDeleteUser == \E t \in Bearers, id \in UserIds, f \in Fails(DeleteUserSites) : DeleteUser(t, id, f)
DoAdminDeleteUser ==
    \E t \in Bearers, id \in UserIds, f \in Fails(AdminUserSites) : AdminDeleteUser(t, id, f)
DoAdminLogin ==
    \E e \in AdminEmails, pw \in Passwords, f \in Fails(AdminLoginSites) : AdminLogin(e, pw, f)
DoAdminMe == \E t \in Bearers, f \in Fails(AdminResolveSites) : AdminMe(t, f)
DoAdminLogout == \E t \in Bearers, f \in Fails(AdminResolveSites) : AdminLogout(t, f)
DoAdminSetActive ==
    \E t \in Bearers, id \in AdminIds, b \in BOOLEAN, f \in Fails(AdminWriteSites) :
        AdminSetActive(t, id, b, f)
DoAdminDelete ==
    \E t \in Bearers, id \in AdminIds, f \in Fails(AdminWriteSites) : AdminDelete(t, id, f)

\* One verify-otp request taken step by step, each step up to the next
\* await on the store: the read of the OTP row, ...
VerifyRead(k, p, c, v) ==
    /\ calls[k].pc \in {"idle", "done"}
    /\ LET r == otp_service_verify_otp_read(otps, now, p, c, {})
           arrived == [IdleCall EXCEPT !.phoneNumber = p, !.otp = c, !.voterId = v,
                                       !.otp_record = r.otp_record]
       IN  calls' = [calls EXCEPT ![k] =
                        IF r.success THEN [arrived EXCEPT !.pc = "mark"]
                        ELSE [arrived EXCEPT !.pc = "done", !.status = 401,
                                             !.detail = r.message]]
    /\ UNCHANGED <<now, ticks, otps, users, nextUserId, sessions, admins, tokens, resp>>

\* ... the write that marks the row read, ...
VerifyMark(k) ==
    /\ calls[k].pc = "mark"
    /\ LET r == otp_service_verify_otp_mark(otps, calls[k].otp_record.data)
       IN  /\ otps' = r.otps
           /\ calls' = [calls EXCEPT ![k] =
                          IF r.success THEN [@ EXCEPT !.pc = "authenticate"]
                          ELSE [@ EXCEPT !.pc = "done", !.status = 401, !.detail = r.message]]
    /\ UNCHANGED <<now, ticks, users, nextUserId, sessions, admins, tokens, resp>>

\* ... the voter id and the lookup of the user by phone, ...
VerifyAuthenticate(k) ==
    /\ calls[k].pc = "authenticate"
    /\ LET r == authenticate_phone_user_lookup(St, calls[k].phoneNumber, calls[k].voterId, {})
       IN  calls' = [calls EXCEPT ![k] =
                        IF r.status = 401
                        THEN [@ EXCEPT !.pc = "done", !.status = 401, !.detail = r.detail]
                        ELSE [@ EXCEPT !.pc = "create", !.found = r.found]]
    /\ UNCHANGED <<now, ticks, otps, users, nextUserId, sessions, admins, tokens, resp>>

\* ... and the user row if the lookup found none, the session and the token.
VerifyCreate(k) ==
    /\ calls[k].pc = "create"
    /\ LET r == authenticate_phone_user_complete(St, now, calls[k].phoneNumber,
                                                 calls[k].voterId, calls[k].found, {})
       IN  /\ WithinBounds(r.store)
           /\ users' = r.store.users
           /\ nextUserId' = r.store.nextUserId
           /\ sessions' = r.store.sessions
           /\ tokens' = r.store.tokens
           /\ calls' = [calls EXCEPT ![k] =
                          [@ EXCEPT !.pc = "done", !.status = r.status, !.detail = r.detail,
                                    !.access_token = IF r.status = 200
                                                     THEN Some(r.access_token) ELSE NoneVal]]
           /\ resp' = [op |-> "verify_otp",
                       req |-> [phoneNumber |-> calls[k].phoneNumber, otp |-> calls[k].otp,
                                voterId |-> calls[k].voterId],
                       status |-> r.status, detail |-> r.detail]
    /\ UNCHANGED <<now, ticks, otps, admins>>

DoVerifyRead == \E k \in Calls, p \in Phones, c \in Codes, v \in VoterInputs : VerifyRead(k, p, c, v)
DoVerifyMark == \E k \in Calls : VerifyMark(k)
DoVerifyAuthenticate == \E k \in Calls : VerifyAuthenticate(k)
DoVerifyCreate == \E k \in Calls : VerifyCreate(k)

WeekTick == \E d \in {1, OtpExpiresIn, SessionTtl} : Tick(d)

Next ==
    \/ DoSendOtp
    \/ DoVerifyOtp
    \/ DoVerifyRead
    \/ DoVerifyMark
    \/ DoVerifyAuthenticate
    \/ DoVerifyCreate
    \/ DoLogout
    \/ DoGetMe
    \/ DoGetMyProfile
    \/ DoUpdateMyProfile
    \/ DoUpdateUser
    \/ DoDeleteUser
    \/ DoAdminDeleteUser
    \/ DoAdminLogin
    \/ DoAdminMe
    \/ DoAdminLogout
    \/ DoAdminSetActive
    \/ DoAdminDelete
    \/ WeekTick

Spec == Init /\ [][Next]_vars

----------------------------------------------------------------------------
(* The citizen login flow on its own: one phone asks for codes and answers
   them, with every voter id input and every store failure. *)

FlowPhone == "9000000001"
DrawnCode == "123456"
FlowVoters == VoterInputs \ {"XYZ789"}

FlowSend ==
    \E v \in FlowVoters, f \in Fails(SendOtpSites) : SendOtp(FlowPhone, v, DrawnCode, f)
FlowVerify ==
    \E c \in Codes, v \in FlowVoters, f \in Fails(VerifyOtpSites) : VerifyOtp(FlowPhone, c, v, f)
FlowTick == Tick(OtpExpiresIn + 1)

NextFlow == FlowSend \/ FlowVerify \/ FlowTick

SpecFlow == Init /\ [][NextFlow]_vars

----------------------------------------------------------------------------
(* Sessions and tokens of logged-in citizens.  Logins are the requests of a
   citizen with an eligible voter id against a store that answers; the clock
   moves by the lifetime of a session. *)

LoginSend == \E p \in Phones : SendOtp(p, "ABC123", DrawnCode, {})
LoginVerify == \E p \in Phones : VerifyOtp(p, DrawnCode, "ABC123", {})
SessionTick == Tick(SessionTtl)

NextSession ==
    \/ LoginSend
    \/ LoginVerify
    \/ DoLogout
    \/ DoGetMe
    \/ DoGetMyProfile
    \/ DoDeleteUser
    \/ SessionTick

SpecSession == Init /\ [][NextSession]_vars

----------------------------------------------------------------------------
(* Admins beside one citizen who logs in once; the clock moves by the
   lifetime of an admin token. *)

OneSend == otps = <<>> /\ SendOtp(FlowPhone, "ABC123", DrawnCode, {})
OneVerify == VerifyOtp(FlowPhone, DrawnCode, "ABC123", {})
CitizenMe == \E t \in Bearers : GetMe(t, {})
CitizenProfile == \E t \in Bearers : GetMyProfile(t, {})
AdminTick == Tick(AdminTokenTtl)

NextAdmin ==
    \/ OneSend
    \/ OneVerify
    \/ CitizenMe
    \/ CitizenProfile
    \/ DoAdminLogin
    \/ DoAdminMe
    \/ DoAdminLogout
    \/ DoAdminSetActive
    \/ DoAdminDelete
    \/ AdminTick

SpecAdmin == Init /\ [][NextAdmin]_vars

----------------------------------------------------------------------------
(* Logged-in citizens editing User rows through /users *)

\* The bodies that move the phone number or swap the voter id.
ProfileUpdates == {u \in UserUpdates : \/ u.voterId = NoneVal /\ u.phoneNumber # NoneVal
                                       \/ u.voterId = Some("XYZ789") /\ u.phoneNumber = NoneVal}
ProfileEdit == \E t \in Bearers, u \in ProfileUpdates : UpdateMyProfile(t, u, {})
UserEdit == \E t \in Bearers, id \in UserIds, u \in ProfileUpdates : UpdateUser(t, id, u, {})
ProfileFetch == \E t \in Bearers : GetMyProfile(t, {})

NextProfile ==
    \/ LoginSend
    \/ LoginVerify
    \/ ProfileEdit
    \/ UserEdit
    \/ ProfileFetch

SpecProfile == Init /\ [][NextProfile]_vars

----------------------------------------------------------------------------
(* One citizen logging in, out and in again *)

ReloginSend == SendOtp(FlowPhone, "ABC123", DrawnCode, {})
ReloginLogout == \E t \in Bearers : Logout(t, {}, 0)
ReloginTick == \E d \in {1, SessionTtl} : Tick(d)

NextRelogin ==
    \/ ReloginSend
    \/ OneVerify
    \/ ReloginLogout
    \/ CitizenMe
    \/ CitizenProfile
    \/ ReloginTick

SpecRelogin == Init /\ [][NextRelogin]_vars

----------------------------------------------------------------------------
(* Two verify-otp requests of one phone number running side by side *)

RaceSend == \E c \in Codes : SendOtp(FlowPhone, "ABC123", c, {})
RaceRead == \E k \in Calls, c \in Codes : VerifyRead(k, FlowPhone, c, "ABC123")
RaceTick == \E d \in {1, OtpExpiresIn} : Tick(d)

NextRace ==
    \/ RaceSend
    \/ RaceRead
    \/ DoVerifyMark
    \/ DoVerifyAuthenticate
    \/ DoVerifyCreate
    \/ RaceTick

SpecRace == Init /\ [][NextRace]_vars

----------------------------------------------------------------------------
(* Claims about the OTP engine, checked under SpecOtp *)

RowsOf(p) == {o \in Range(otps) : o.phoneNumber = p}
IsLive(o, c) == ~o.isUsed /\ ~(now > from_iso(o.expiresAt)) /\ o.otp = c
VerifyNow(p, c) == otp_service_verify_otp(otps, now, p, c, {})

\* C1 (as stated): for every phone number P and code C, in every reachable
\* store state, verify(P,C) succeeds iff some row of P is unused, unexpired and
\* carries C; otherwise it fails with its own reason for each of: no row, every
\* row used, no unused row unexpired, no live row carrying C.
C1_VerifyIffSomeLiveRow ==
    \A p \in Phones, c \in Codes :
        LET r == VerifyNow(p, c)
            unused == {o \in RowsOf(p) : ~o.isUsed}
            fresh == {o \in unused : ~(now > from_iso(o.expiresAt))}
        IN  /\ r.success <=> \E o \in RowsOf(p) : IsLive(o, c)
            /\ ~r.success =>
                 r.message = (IF RowsOf(p) = {} THEN "OTP not found"
                              ELSE IF unused = {} THEN "OTP already used"
                              ELSE IF fresh = {} THEN "OTP expired"
                              ELSE "Invalid OTP")

\* C2 (as stated): a verify(P,C) that succeeds marks the row used, and the
\* same verify(P,C) issued right after it fails with "OTP already used".
C2_SecondVerifyAlreadyUsed ==
    [][\A p \in Phones, c \in Codes :
          (VerifyNow(p, c).success /\ EngineVerify(p, c, {}))
          => LET second == otp_service_verify_otp(otps', now', p, c, {})
             IN  ~second.success /\ second.message = "OTP already used"]_vars

\* The row verify evaluates for a phone number: its latest unused row.
Evaluated(p) == get_otp_by_phone(otps, p, {})

\* C6: the OTP that verify evaluates, created at second T, verifies with its
\* own code at every now < T+60 and at now = T+60, and every verify of its
\* phone number fails with "OTP expired" at every now > T+60 (the store
\* answering).
C6_ExpiryBoundary ==
    \A p \in Phones :
        ~Evaluated(p).isNone =>
            LET o == Evaluated(p).data
                T == o.createdAt[1]
            IN  /\ from_iso(o.expiresAt) = T + 60
                /\ now <= T + 60 => VerifyNow(p, o.otp).success
                /\ now > T + 60 =>
                     \A c \in Codes : /\ ~VerifyNow(p, c).success
                                      /\ VerifyNow(p, c).message = "OTP expired"

\* An unused OTP at the very second it expires.
C6_Witness ==
    \E p \in Phones :
        /\ ~Evaluated(p).isNone
        /\ now = from_iso(Evaluated(p).data.expiresAt)
        /\ resp.op = "otp.verify" /\ resp.status = 200

\* The unused rows of a phone number, and the one created last.
Unused(p) == {o \in RowsOf(p) : ~o.isUsed}
Latest(p) == CHOOSE o \in Unused(p) : \A q \in Unused(p) : q.id <= o.id

\* C18: while a phone number has unused rows, verify evaluates the one
\* created last and no other: a verify succeeds only with that row's code
\* and marks that row alone, every other row staying as it was; a failed
\* verify changes no row; and the code of an older unused row, when it
\* differs from the latest row's code, does not verify.
C18_LatestRowOnly ==
    \A p \in Phones :
        Unused(p) # {} =>
            /\ Evaluated(p).data = Latest(p)
            /\ \A c \in Codes, f \in SUBSET OtpVerifySites :
                  LET r == otp_service_verify_otp(otps, now, p, c, f)
                  IN  IF r.success
                      THEN /\ c = Latest(p).otp
                           /\ r.otps = [i \in DOMAIN otps |->
                                 IF otps[i] = Latest(p) THEN [otps[i] EXCEPT !.isUsed = TRUE]
                                 ELSE otps[i]]
                      ELSE r.otps = otps
            /\ \A q \in Unused(p) :
                  q.otp # Latest(p).otp => ~VerifyNow(p, q.otp).success

\* C18 happens: a verify has just succeeded on the newer of two rows of a
\* phone number; the older row, with another code, is there as it was,
\* still unused.
C18_Witness ==
    /\ resp.op = "otp.verify" /\ resp.status = 200
    /\ \E old \in Range(otps), new \in Range(otps) :
          /\ old.phoneNumber = new.phoneNumber /\ old.id < new.id
          /\ new.isUsed /\ ~old.isUsed /\ old.otp # new.otp

\* C13: send stores a row for the phone with the drawn code, expiresAt =
\* now + 60 and isUsed = FALSE, then hands the SMS to the dispatcher, and
\* returns success with expires_in = 60 whether or not the SMS was delivered;
\* the row stays.  Only when the store refuses the row is there no SMS.
C13_SendSucceedsWhateverTheSms ==
    \A p \in Phones, c \in Codes, f \in SUBSET OtpSendSites :
        LET r == otp_service_send_otp(otps, now, p, c, f)
        IN  IF "OTP.create" \in f
            THEN ~r.success /\ ~r.sms /\ r.otps = otps
            ELSE /\ r.success /\ r.expires_in = 60 /\ r.sms
                 /\ Len(r.otps) = Len(otps) + 1
                 /\ SubSeq(r.otps, 1, Len(otps)) = otps
                 /\ LET o == r.otps[Len(r.otps)]
                    IN  /\ o.phoneNumber = p /\ o.otp = c /\ ~o.isUsed
                        /\ from_iso(o.expiresAt) = now + 60

\* C13 happens: a send whose SMS was not delivered has answered success and
\* its row is the last of the store.
C13_Witness ==
    /\ resp.op = "otp.send"
    /\ resp.status = 200
    /\ resp.detail = "OTP generated successfully (SMS may not be delivered)"
    /\ otps # <<>>
    /\ from_iso(otps[Len(otps)].expiresAt) = now + 60
    /\ ~otps[Len(otps)].isUsed

----------------------------------------------------------------------------
(* Claims about the citizen login flow, checked under SpecFlow *)

NoUserFor(p) == \A u \in Range(users) : u.phoneNumber # p
Ineligible(v) == ~\E r \in Range(VoterIdRows) : r.voterId = v /\ r.isActive

\* C4: requestOtp for a phone number that no User row carries, with a voterId
\* that the registry lacks or holds inactive, is answered 401 whatever store
\* call fails; the OTP rows stay as they were and no SMS is dispatched.
C4_VoterGateBeforeOtp ==
    \A p \in Phones, v \in VoterInputs, c \in Codes, f \in SUBSET SendOtpSites :
        (NoUserFor(p) /\ Ineligible(v)) =>
            LET r == send_otp(St, now, p, v, c, f)
            IN  r.status = 401 /\ r.store.otps = otps /\ ~r.sms

\* C4 happens: a phone with OTP rows from an eligible request and still no
\* User has just asked with the inactive voter id and was answered 401.
C4_Witness ==
    /\ resp.op = "send_otp"
    /\ resp.req.voterId = "OLD000"
    /\ NoUserFor(resp.req.phoneNumber)
    /\ resp.status = 401
    /\ otps # <<>>

\* The outcome of verify_otp in terms of the rows and the reply.
OtpAccepted(p, c, f) == otp_service_verify_otp(otps, now, p, c, f).success
GateRefuses(v, f) == v # "" /\ (Ineligible(v) \/ "VoterId.findMany" \in f)
Consumed(r, p) ==
    \E i \in DOMAIN otps :
        /\ otps[i].phoneNumber = p /\ ~otps[i].isUsed
        /\ r.store.otps = [otps EXCEPT ![i].isUsed = TRUE]
Authenticated(r, p) ==
    /\ r.status = 200
    /\ Len(r.store.sessions) = Len(sessions) + 1
    /\ SubSeq(r.store.sessions, 1, Len(sessions)) = sessions
    /\ LET s == r.store.sessions[Len(r.store.sessions)]
       IN  /\ s.isActive
           /\ s.expiresAt = iso_z(now + 7 * 24 * 60 * 60)
           /\ \E u \in Range(r.store.users) : u.id = s.userId /\ u.phoneNumber = p
           /\ r.access_token \in r.store.tokens
           /\ r.access_token.payload.userId = s.userId
           /\ r.access_token.payload.exp = now + 7 * 24 * 60 * 60

\* C7 as stated: whenever the engine accepts the code and the store answers
\* every call, verifyOtp ends Authenticated (new 7-day session for the
\* phone's User, token returned), whatever voterId the request carries.
C7_AcceptedOtpAlwaysAuthenticates ==
    \A p \in Phones, c \in Codes, v \in VoterInputs :
        OtpAccepted(p, c, {}) => Authenticated(verify_otp(St, now, p, c, v, {}), p)

\* C7 amended: once the engine accepts the code the OTP row is consumed, and
\* then (a) a non-empty voterId that the gate refuses ends in 401 with no
\* User, Session or token added; (b) otherwise, unless the User or Session
\* write fails, the flow ends Authenticated; (c) a failed write ends in 500
\* with no Session and no token.
C7_AcceptedOtpOutcome ==
    \A p \in Phones, c \in Codes, v \in VoterInputs, f \in SUBSET VerifyOtpSites :
        OtpAccepted(p, c, f) =>
            LET r == verify_otp(St, now, p, c, v, f)
            IN  /\ Consumed(r, p)
                /\ IF GateRefuses(v, f)
                   THEN /\ r.status = 401
                        /\ r.store.users = users
                        /\ r.store.sessions = sessions
                        /\ r.store.tokens = tokens
                   ELSE \/ Authenticated(r, p)
                        \/ /\ r.status = 500
                           /\ f \cap {"User.create", "Session.create"} # {}
                           /\ r.store.sessions = sessions
                           /\ r.store.tokens = tokens

\* C7 happens: a verifyOtp whose code was right but whose voterId the
\* registry lacks was answered 401, and the OTP row is used.
C7_Witness ==
    /\ resp.op = "verify_otp"
    /\ resp.req.voterId = "NOPE00"
    /\ resp.status = 401
    /\ resp.detail = "Invalid voter ID"
    /\ \E o \in Range(otps) : o.phoneNumber = resp.req.phoneNumber /\ o.isUsed
\* C14: validate_voter_id answers TRUE exactly when the registry fetch
\* succeeds and holds an active row of the voterId; a failed fetch, an absent
\* row and an inactive row all answer FALSE, and the answer is always a
\* boolean (nothing is raised); for every voter id a request can carry and
\* every voter id stored on a User row.
C14_GateFailsClosed ==
    \A v \in VoterInputs \cup {u.voterId : u \in Range(users)}, failed \in BOOLEAN :
        /\ validate_voter_id(v, failed) \in BOOLEAN
        /\ validate_voter_id(v, failed) <=> (~failed /\ ~Ineligible(v))

\* C14 happens: a new phone asked with a voter id the registry holds active
\* and was still answered 401, which only a failed registry fetch explains.
C14_Witness ==
    /\ resp.op = "send_otp"
    /\ ~Ineligible(resp.req.voterId)
    /\ NoUserFor(resp.req.phoneNumber)
    /\ resp.status = 401
    /\ resp.detail = "Invalid voter ID"

\* C15: requestOtp for a phone number that a User row carries, with a
\* voterId that differs from the voterId of every User row of that phone, is
\* answered 401 and creates no OTP row, whatever the registry says about the
\* claimed voterId and whatever store call fails.
C15_BoundVoterIdOnly ==
    \A p \in Phones, v \in VoterInputs, c \in Codes, f \in SUBSET SendOtpSites :
        (~NoUserFor(p) /\ \A u \in Range(users) : u.phoneNumber = p => u.voterId # v) =>
            LET r == send_otp(St, now, p, v, c, f)
            IN  r.status = 401 /\ r.store.otps = otps

\* C20 (as stated): every User row the citizen flow has created carries a
\* voterId that is not empty and has an active record in the registry.
C20_SelfRegistrationNeedsActiveVoterId ==
    \A u \in Range(users) :
        /\ u.voterId # ""
        /\ \E row \in Range(VoterIdRows) : row.voterId = u.voterId /\ row.isActive

\* C22: when the engine's verify fails inside verifyOtp, whether no unused
\* row is left for the phone, the row evaluated has expired or carries
\* another code, or a store call of the engine raised, the request answers
\* 401 with the engine's reason and the OTP, User and Session rows and the
\* tokens minted are what they were.
C22_FailedVerifyChangesNothing ==
    \A p \in Phones, c \in Codes, v \in VoterInputs, f \in SUBSET OtpVerifySites :
        LET e == otp_service_verify_otp(otps, now, p, c, f)
            r == verify_otp(St, now, p, c, v, f)
            ev == Evaluated(p)
            reason == IF ev.isNone THEN "OTP not found"
                      ELSE IF now > from_iso(ev.data.expiresAt) THEN "OTP expired"
                      ELSE IF ev.data.otp # c THEN "Invalid OTP" ELSE ""
        IN  /\ ~e.success => r.status = 401 /\ r.detail = e.message /\ r.store = St
            /\ reason # "" /\ "OTP.findMany" \notin f =>
                  r.status = 401 /\ r.detail = reason /\ r.store = St

\* C22 happens: a verifyOtp with the wrong code has been refused while the
\* row it was tested against is still unused and nobody has been registered
\* or logged in.
C22_Witness ==
    /\ resp.op = "verify_otp" /\ resp.status = 401 /\ resp.detail = "Invalid OTP"
    /\ ~Evaluated(resp.req.phoneNumber).isNone
    /\ Evaluated(resp.req.phoneNumber).data.otp # resp.req.otp
    /\ users = <<>> /\ sessions = <<>> /\ tokens = {}

\* C26 (as stated): no two User rows carry the same phoneNumber.
C26_OneUserPerPhone ==
    \A i \in DOMAIN users, j \in DOMAIN users :
        users[i].phoneNumber = users[j].phoneNumber => i = j

----------------------------------------------------------------------------
(* Claims about citizen sessions and tokens, checked under SpecSession *)

\* The session rows that keep a user's tokens alive at the present time.
LiveSessions(user_id) ==
    {i \in DOMAIN sessions :
        /\ sessions[i].userId = user_id
        /\ sessions[i].isActive
        /\ from_iso(sessions[i].expiresAt) > now}
Resolve(t, f) == get_current_user_by_token(t, sessions, users, now, f)
SignedAndUnexpired(t) == t.sig = "SECRET_KEY" /\ t.payload.exp >= now

\* C3: after a logout answered 200, and until the next request, the token it
\* was made with is not accepted by get_current_user_by_token.
C3_LoggedOutTokenRejected ==
    (resp.op = "logout" /\ resp.status = 200) =>
        \A f \in SUBSET CitizenResolveSites : Resolve(resp.req.token, f).status # 200

\* C8: get_current_user_by_token accepts a token only while an active session
\* of the token's userId with expiresAt strictly later than now exists, and
\* answers 401 when the user has no such session, whatever store call fails.
C8_AcceptOnlyWithLiveSession ==
    \A t \in Bearers, f \in SUBSET CitizenResolveSites :
        /\ Resolve(t, f).status = 200 => LiveSessions(t.payload.userId) # {}
        /\ LiveSessions(t.payload.userId) = {} => Resolve(t, f).status = 401

\* C8 happens: GET /auth/me with a signed token whose exp has not passed was
\* answered 401 while the user's only active session expires exactly now.
C8_Witness ==
    /\ resp.op = "me"
    /\ resp.status = 401
    /\ SignedAndUnexpired(resp.req.token)
    /\ \E x \in Range(sessions) :
           /\ x.userId = resp.req.token.payload.userId
           /\ x.isActive
           /\ from_iso(x.expiresAt) = now

\* C9: get_current_user_by_token answers 401 whenever the User row of the
\* token's userId is missing or has isActive = FALSE, live session or not.
C9_MissingOrInactiveUserRejected ==
    \A t \in tokens :
        (~\E u \in Range(users) : u.id = t.payload.userId /\ u.isActive) =>
            Resolve(t, {}).status = 401
\* C16: a logout answered 200 leaves every Session row of the caller that
\* was active with isActive = FALSE, every other Session row as it was, and
\* the User and OTP rows untouched, whatever store call fails.
C16_LogoutFrame ==
    \A t \in Bearers, f \in SUBSET LogoutSites, done \in 0..(MaxSessions - 1) :
        LET r == logout(St, now, t, f, done)
            Mine(x) == x.userId = t.payload.userId /\ x.isActive
        IN  r.status = 200 =>
              /\ r.store.sessions =
                    [i \in DOMAIN sessions |->
                        IF Mine(sessions[i]) THEN [sessions[i] EXCEPT !.isActive = FALSE]
                        ELSE sessions[i]]
              /\ r.store.users = users
              /\ r.store.otps = otps

\* The active Session rows of a user.
ActiveSessionsOf(rows, id) == {i \in DOMAIN rows : rows[i].userId = id /\ rows[i].isActive}

\* C23: a verifyOtp that answers 200 appends one Session row: active, of
\* the user logged in, expiring seven days from now; every row there was
\* stays as it was, so the user has one active session more than before,
\* whatever sessions the user already had.
C23_SessionsAppendOnly ==
    \A p \in Phones, c \in Codes, f \in SUBSET {"User.findMany", "Session.create"} :
        LET r == verify_otp(St, now, p, c, "ABC123", f)
            after == r.store.sessions
        IN  r.status = 200 =>
              /\ Len(after) = Len(sessions) + 1
              /\ SubSeq(after, 1, Len(sessions)) = sessions
              /\ LET new == after[Len(after)]
                 IN  /\ new.isActive /\ new.phoneNumber = p
                     /\ new.userId = r.access_token.payload.userId
                     /\ from_iso(new.expiresAt) = now + SessionTtl
                     /\ \A x \in Range(sessions) : x.id # new.id
                     /\ Cardinality(ActiveSessionsOf(after, new.userId)) =
                           Cardinality(ActiveSessionsOf(sessions, new.userId)) + 1

\* C23 happens: a second login of a user has succeeded and the user has two
\* active sessions.
C23_Witness ==
    /\ resp.op = "verify_otp" /\ resp.status = 200
    /\ Len(sessions) = 2
    /\ sessions[1].userId = sessions[2].userId
    /\ sessions[1].isActive /\ sessions[2].isActive

\* C28 (as stated): every token get_current_user accepts is accepted by
\* get_current_user_by_token in the same state, so a token whose sessions a
\* logout has invalidated is rejected on the endpoints either of them guards.
C28_GeneralResolverHonoursLogout ==
    \A t \in Bearers :
        get_current_user(t, users, now, {}).status = 200
            => get_current_user_by_token(t, sessions, users, now, {}).status = 200

\* C29 (as stated): a logout answers 200 only when no Session row of the
\* caller is active afterwards, and answers 500 when the session fetch or one
\* of the session updates failed at the store.
C29_LogoutSuccessMeansInvalidated ==
    \A t \in Bearers, f \in SUBSET LogoutSites, done \in 0..(MaxSessions - 1) :
        LET r == logout(St, now, t, f, done)
            attempt == invalidate_sessions_by_user(sessions, t.payload.userId, f, done)
            accepted == get_current_user_by_token(t, sessions, users, now, f).status = 200
        IN  /\ r.status = 200 =>
                  ActiveSessionsOf(r.store.sessions, t.payload.userId) = {}
            /\ accepted /\ attempt.error => r.status = 500

----------------------------------------------------------------------------
(* Claims about the two kinds of principal, checked under SpecAdmin *)

ResolveAdmin(t, f) == get_current_admin(t, admins, now, f)
ActiveAdmin(id) == \E a \in Range(admins) : a.id = id /\ a.isActive

\* C5: a token minted by admin login is accepted by neither citizen resolver,
\* and a token minted by verifyOtp is not accepted by the admin resolver, in
\* every reachable state and whatever store call fails.
C5_PrincipalIsolation ==
    \A t \in tokens :
        /\ t.mintedBy = "admin_login" =>
              /\ \A f \in SUBSET CitizenResolveSites : Resolve(t, f).status # 200
              /\ \A f \in SUBSET UserResolveSites :
                    get_current_user(t, users, now, f).status # 200
        /\ t.mintedBy = "verify_otp" =>
              \A f \in SUBSET AdminResolveSites : ResolveAdmin(t, f).status # 200

\* C5 happens: GET /admin/auth/me with a citizen's unexpired token was
\* answered 401 while an active Admin carries the id of the token's User, and
\* an admin's token is in circulation beside it.
C5_Witness ==
    /\ resp.op = "admin_me"
    /\ resp.status = 401
    /\ resp.req.token.mintedBy = "verify_otp"
    /\ SignedAndUnexpired(resp.req.token)
    /\ ActiveAdmin(resp.req.token.payload.userId)
    /\ \E t \in tokens : t.mintedBy = "admin_login"

\* C10: get_current_admin accepts a token only if it carries adminId and
\* userType "admin" and an Admin row of that id is active now; with no such
\* row every token is answered 401.
C10_AdminAcceptedOnlyWhileActive ==
    \A t \in Bearers, f \in SUBSET AdminResolveSites :
        LET claimsOk == /\ Has(t.payload, "adminId")
                        /\ Has(t.payload, "userType")
                        /\ t.payload.userType = "admin"
        IN  /\ ResolveAdmin(t, f).status = 200 => claimsOk /\ ActiveAdmin(t.payload.adminId)
            /\ (claimsOk /\ ~ActiveAdmin(t.payload.adminId)) => ResolveAdmin(t, f).status = 401

\* C10 happens: GET /admin/auth/me with an admin's unexpired token was
\* answered 401 because that admin has since been deactivated or deleted.
C10_Witness ==
    /\ resp.op = "admin_me"
    /\ resp.status = 401
    /\ resp.req.token.mintedBy = "admin_login"
    /\ SignedAndUnexpired(resp.req.token)
    /\ ~ActiveAdmin(resp.req.token.payload.adminId)

\* The active Admin rows an email and password belong to.
AdminsOf(e, pw) ==
    {i \in DOMAIN admins :
        /\ admins[i].email = e /\ admins[i].isActive
        /\ admins[i].password = get_password_hash(pw)}

\* C11: with the store answering, admin login with the email and password of
\* an active Admin is answered 200 with expires_in = 28800, mints a token of
\* that admin expiring 28800 s from now and stamps lastLogin on that Admin
\* alone; with a wrong password, or an unknown or inactive email, it is
\* answered 401, mints no token and leaves every Admin row as it was,
\* whatever store call fails.
C11_AdminLoginOutcome ==
    \A e \in AdminEmails \cup {"nobody@example.org"}, pw \in Passwords :
        /\ AdminsOf(e, pw) # {} =>
              LET r == admin_login(admins, tokens, now, e, pw, {})
                  i == CHOOSE j \in AdminsOf(e, pw) : \A k \in AdminsOf(e, pw) : j <= k
              IN  /\ r.status = 200
                  /\ r.expires_in = 28800
                  /\ r.access_token.payload.exp = now + 28800
                  /\ r.access_token.payload.adminId = admins[i].id
                  /\ r.tokens = tokens \cup {r.access_token}
                  /\ r.admins = [admins EXCEPT ![i].lastLogin = iso_z(now)]
        /\ AdminsOf(e, pw) = {} =>
              \A f \in SUBSET AdminLoginSites :
                  LET r == admin_login(admins, tokens, now, e, pw, f)
                  IN  r.status = 401 /\ r.tokens = tokens /\ r.admins = admins

\* C11 happens: an active admin who logged in before has just tried a wrong
\* password and was answered 401.
C11_Witness ==
    /\ resp.op = "admin_login"
    /\ resp.status = 401
    /\ AdminsOf(resp.req.email, resp.req.password) = {}
    /\ \E a \in Range(admins) :
           a.email = resp.req.email /\ a.isActive /\ a.lastLogin # <<>>

\* C12: from every reachable state with the store answering, for a phone P
\* that no User row carries and an active voterId V: requestOtp(P, V) is
\* answered 200 with expires_in = 60; verifyOtp(P, the drawn code, V) within
\* the 60 s is answered with a bearer token and expires_in = 604800; and
\* GET /auth/me with that token, while it lasts, returns the User whose
\* phoneNumber is P and whose id is the token's userId.
C12_EndToEndCitizenFlow ==
    \A p \in Phones, v \in VoterInputs, c \in Codes,
       d1 \in {0, OtpExpiresIn}, d2 \in {0, SessionTtl - 1} :
        (NoUserFor(p) /\ ~Ineligible(v)) =>
            LET sent == send_otp(St, now, p, v, c, {})
                verified == verify_otp(sent.store, now + d1, p, c, v, {})
                self == get_current_user_info(verified.store, now + d1 + d2,
                                              verified.access_token, {})
            IN  /\ sent.status = 200 /\ sent.expires_in = 60
                /\ verified.status = 200 /\ verified.detail = "bearer"
                /\ verified.expires_in = 604800
                /\ self.status = 200
                /\ self.user.phoneNumber = p
                /\ self.user.id = verified.access_token.payload.userId

\* C12 happens: the second phone's citizen, registered with an active voter
\* id after another user, has just fetched /auth/me with the token and got
\* 200.
C12_Witness ==
    /\ resp.op = "me"
    /\ resp.status = 200
    /\ Len(users) = 2
    /\ \E u \in Range(users) :
           /\ u.id = resp.req.token.payload.userId
           /\ u.id = 2
           /\ u.phoneNumber = resp.req.token.payload.phoneNumber
           /\ ~Ineligible(u.voterId)

\* C17: admin login leaves no Session row behind (there are exactly as many
\* Session rows as citizen logins), and admin logout changes no Admin row and
\* no token: a token the admin resolver accepts is acknowledged with 200 and
\* is accepted after the logout as before, now and at every later second up
\* to its exp.
C17_AdminStateless ==
    /\ Len(sessions) = Cardinality({t \in tokens : t.mintedBy = "verify_otp"})
    /\ \A t \in Bearers, f \in SUBSET AdminResolveSites :
          LET r == admin_logout(admins, tokens, now, t, f)
          IN  /\ r.admins = admins /\ r.tokens = tokens
              /\ ResolveAdmin(t, {}).status = 200 =>
                    /\ admin_logout(admins, tokens, now, t, {}).status = 200
                    /\ get_current_admin(t, r.admins, now, {}).status = 200
                    /\ get_current_admin(t, r.admins, t.payload.exp, {}).status = 200
                    /\ get_current_admin(t, r.admins, t.payload.exp + 1, {}).status = 401

\* C17 happens: an admin has just logged out (200) and the token is still
\* accepted, with no Session row in the store.
C17_Witness ==
    /\ resp.op = "admin_logout"
    /\ resp.status = 200
    /\ resp.req.token.mintedBy = "admin_login"
    /\ ResolveAdmin(resp.req.token, {}).status = 200
    /\ sessions = <<>>

\* C24: resolving a bearer token writes nothing.  For every token and every
\* failing store call, the requests that only resolve the caller (GET
\* /auth/me and GET /users/me/profile for citizens, GET /admin/auth/me for
\* admins) return the OTP, User, Session and Admin rows and the tokens as
\* they were, accepted or not: no expiresAt moves, no session is activated.
C24_ResolutionReadOnly ==
    /\ \A t \in Bearers, f \in SUBSET CitizenResolveSites :
          /\ get_current_user_info(St, now, t, f).store = St
          /\ get_my_profile(St, now, t, f).store = St
    /\ \A t \in Bearers, f \in SUBSET AdminResolveSites :
          LET r == get_current_admin_info(admins, tokens, now, t, f)
          IN  r.admins = admins /\ r.tokens = tokens

\* C24 happens: a citizen token has just been accepted some time after the
\* login, and the session still expires seven days after the login.
C24_Witness ==
    /\ resp.op = "me" /\ resp.status = 200
    /\ Len(sessions) = 1
    /\ from_iso(sessions[1].expiresAt) < now + SessionTtl

\* C25: delete_admin called by an accepted admin with its own id is
\* refused with an error status and the Admin rows stay as they are, the
\* caller's among them; called with another admin's id, the store
\* answering, it removes that row and no other.
C25_NoSelfDelete ==
    \A t \in Bearers, id \in AdminIds, f \in SUBSET AdminWriteSites :
        LET caller == ResolveAdmin(t, f)
            r == delete_admin(admins, tokens, now, t, id, f)
            Other(a) == a.id # id
        IN  IF caller.status # 200 THEN r.status = caller.status /\ r.admins = admins
            ELSE IF id = caller.admin.id
            THEN /\ r.status >= 400
                 /\ r.admins = admins
                 /\ \E a \in Range(r.admins) : a.id = id
            ELSE IF "Admin.write" \in f \/ ~\E a \in Range(admins) : a.id = id
            THEN r.status = 500 /\ r.admins = admins
            ELSE r.status = 200 /\ r.admins = SelectSeq(admins, Other)

\* C25 happens: an admin has just asked for its own deletion, was refused,
\* and is still accepted.
C25_Witness ==
    /\ resp.op = "delete_admin" /\ resp.status >= 400
    /\ ResolveAdmin(resp.req.token, {}).status = 200
    /\ ResolveAdmin(resp.req.token, {}).admin.id = resp.req.admin_id

----------------------------------------------------------------------------
(* Claims about concurrent verifies, checked under SpecRace *)

\* The requests that have passed the tests of the read and hold row `id'.
Holding(id) ==
    {k \in Calls : /\ ~calls[k].otp_record.isNone
                   /\ calls[k].otp_record.data.id = id
                   /\ \/ calls[k].pc \in {"mark", "authenticate", "create"}
                      \/ calls[k].pc = "done" /\ calls[k].status = 200}

\* C19: verify is a read followed later by a separate unconditional write.
\* Run back to back the two steps are the verify of the engine; a request
\* that has passed the read holds a row that was unused, unexpired and of its
\* code when read, and its write succeeds whatever the row holds by then, so
\* another request having marked the same row meanwhile does not stop it.
C19_CheckThenAct ==
    /\ \A p \in Phones, c \in Codes :
          LET rd == otp_service_verify_otp_read(otps, now, p, c, {})
          IN  otp_service_verify_otp(otps, now, p, c, {}) =
                 IF rd.success THEN otp_service_verify_otp_mark(otps, rd.otp_record.data)
                 ELSE [success |-> FALSE, message |-> rd.message, otps |-> otps]
    /\ \A k \in Calls :
          calls[k].pc = "mark" =>
             LET o == calls[k].otp_record.data
                 w == otp_service_verify_otp_mark(otps, o)
             IN  /\ ~o.isUsed /\ o.otp = calls[k].otp /\ o.phoneNumber = calls[k].phoneNumber
                 /\ w.success
                 /\ \A i \in DOMAIN otps : otps[i].id = o.id => w.otps[i].isUsed

\* C19 happens: both requests have returned 200 with a token each, for the
\* one OTP row there is, and two sessions have been created.
C19_Witness ==
    /\ Len(otps) = 1
    /\ Holding(otps[1].id) = Calls
    /\ \A k \in Calls : /\ calls[k].pc = "done" /\ calls[k].status = 200
                         /\ ~calls[k].access_token.isNone
    /\ Len(sessions) = 2

----------------------------------------------------------------------------
(* Claims about User rows under edits, checked under SpecProfile *)

\* C27 (as stated): whenever get_current_user accepts a token, the User it
\* returns has the id of the token's userId claim.
C27_ResolverReturnsTokenOwner ==
    \A t \in Bearers, f \in SUBSET UserResolveSites :
        LET r == get_current_user(t, users, now, f)
        IN  r.status = 200 => r.user.id = t.payload.userId

\* C21 (as stated): a User row keeps the phoneNumber and the voterId it was
\* created with through every request made with a citizen token.
C21_BindingImmutable ==
    [][\A i \in DOMAIN users :
          i \in DOMAIN users' /\ users'[i].id = users[i].id =>
             /\ users'[i].phoneNumber = users[i].phoneNumber
             /\ users'[i].voterId = users[i].voterId]_vars

----------------------------------------------------------------------------
(* Claims about a second login, checked under SpecRelogin *)

\* C30 (as stated): a signed, unexpired token that get_current_user_by_token
\* rejects, its user's sessions having been invalidated, is not accepted
\* after any later step, a new login of the same user included, unless that
\* login has signed the very same token again.
C30_RevocationPermanent ==
    [][\A t \in tokens :
          /\ get_current_user_by_token(t, sessions, users, now, {}).status = 401
          /\ ActiveSessionsOf(sessions, t.payload.userId) = {}
          /\ \E x \in Range(sessions) : x.userId = t.payload.userId
          /\ now' + CitizenTokenTtl # t.payload.exp
          => get_current_user_by_token(t, sessions', users', now', {}).status # 200]_vars
====
